---- MODULE Spec2Model ----
(***************************************************************************)
(* A model of i18n-mark: the Reconciler (writeExtractFile), the            *)
(* translation pass (TranslationManager / TranslationRecordManager), the   *)
(* marking and extraction engines and the vite ExtractQueue.               *)
(*                                                                         *)
(* Strings are modelled as sequences of atoms: the empty string is << >>,  *)
(* so JavaScript truthiness of a string is "is not << >>".                 *)
(***************************************************************************)
EXTENDS Integers, Sequences, FiniteSets, TLC

VARIABLES
    fileMapping,   \* the Usage Map file: key -> set of referencing paths
    dict,          \* the language files: lang -> (key -> value)
    record,        \* the persisted Translation Record (ledger): key -> (lang -> value)
    last,          \* history: the last completed operation, its inputs and pre-state
    update,        \* config.translation.update (the force-update flag)
    tpass,         \* the translation pass in progress (TranslationManager)
    code,          \* the source text handed to the marking / extraction engines
    queue          \* the vite plugin's ExtractQueue and its scheduled callbacks

vars == <<fileMapping, dict, record, last, update, tpass, code, queue>>

(***************************************************************************)
(* Bounds of the model.                                                    *)
(***************************************************************************)
KeyOrder == <<"k1", "k2">>
Keys == {KeyOrder[i] : i \in 1..Len(KeyOrder)}
Paths == {"a.ts", "b.vue"}

SourceLang == "zh"
Langs == <<"zh", "en">>
LangSet == {Langs[i] : i \in 1..Len(Langs)}

(***************************************************************************)
(* Values of dictionary entries (strings).                                 *)
(***************************************************************************)
EmptyStr == << >>
SrcText(k) == <<"src", k>>
HumanText == <<"human">>
\* what a provider returns for `text` translated to `lang`
Translated(text, lang) == <<"tr", lang>> \o text

\* JavaScript truthiness of m[k] where m is a parsed JSON object of strings
Truthy(m, k) == k \in DOMAIN m /\ m[k] /= EmptyStr

EmptyMap == [x \in {} |-> {}]
MapSet(m, k, v) == [x \in DOMAIN m \cup {k} |-> IF x = k THEN v ELSE m[x]]
MapDel(m, ks) == [x \in DOMAIN m \ ks |-> m[x]]

(***************************************************************************)
(* Reconciler: src/src/extract.ts                                          *)
(***************************************************************************)
\* an Entry as extractCode leaves it: key = text, filePath assigned
Entry(k, p) == [key |-> k, text |-> SrcText(k), filePath |-> p]
AllEntries == {Entry(k, p) : k \in Keys, p \in Paths}

groupEntriesByKey(entries) ==
    [k \in {e.key : e \in entries} |-> {e.filePath : e \in {x \in entries : x.key = k}}]

\* detectI18NDifferences with its second test repeating the first one
DiffSecondTestWrong(oldKeys, newKeys) ==
    LET allKeys == DOMAIN oldKeys \cup DOMAIN newKeys
        added == {k \in allKeys : k \notin DOMAIN oldKeys}
    IN  [addedKeys |-> [k \in added |-> newKeys[k]],
         removedKeys |-> EmptyMap,
         unchangedKeys |-> [k \in (allKeys \ added) \cap DOMAIN newKeys |-> newKeys[k]]]

\* `!oldKeys[key]`: the values are arrays, which are truthy, so the test is presence
detectI18NDifferences(oldKeys, newKeys) ==
    LET allKeys == DOMAIN oldKeys \cup DOMAIN newKeys
        added == {k \in allKeys : k \notin DOMAIN oldKeys}
        removed == {k \in allKeys \ added : k \notin DOMAIN newKeys}
        unchanged == (allKeys \ added) \ removed
    IN  [addedKeys |-> [k \in added |-> newKeys[k]],
         removedKeys |-> [k \in removed |-> oldKeys[k]],
         unchangedKeys |-> [k \in unchanged |-> newKeys[k]]]

\* the entries.forEach of writeExtractFile on one language's data
InsertEntries(data, entries) ==
    LET ks == {e.key : e \in entries}
    IN  [k \in DOMAIN data \cup ks |->
            IF Truthy(data, k) THEN data[k]
            ELSE IF k \in ks THEN (CHOOSE e \in entries : e.key = k).text
            ELSE data[k]]

\* what writeExtractFile persists as the Usage Map
PersistedGroups(oldGroups, groups, autoRemoveKey) == groups

\* one language's data after writeExtractFile
LangDataAfter(data, entries, diff, autoRemoveKey) ==
    LET ins == InsertEntries(data, entries)
    IN  IF autoRemoveKey THEN MapDel(ins, DOMAIN diff.removedKeys) ELSE ins

NoOp == [op |-> "none"]
NoCode == << >>
NoQueue == [pc |-> "none"]

\* the files writeExtractFile writes; it has no return statement
WriteFiles(entries, autoRemoveKey) ==
    LET oldGroups == fileMapping
        groups == groupEntriesByKey(entries)
        diff == detectI18NDifferences(oldGroups, groups)
    IN  /\ fileMapping' = PersistedGroups(oldGroups, groups, autoRemoveKey)
        /\ dict' = [l \in LangSet |-> LangDataAfter(dict[l], entries, diff, autoRemoveKey)]
        /\ last' = [op |-> "writeExtractFile", entries |-> entries,
                    autoRemoveKey |-> autoRemoveKey, oldGroups |-> oldGroups,
                    groups |-> groups, diff |-> diff, oldDict |-> dict]

writeExtractFile(entries, autoRemoveKey) ==
    /\ tpass.pc = "idle"
    /\ entries /= {}
    /\ WriteFiles(entries, autoRemoveKey)
    /\ UNCHANGED <<record, update, tpass, code, queue>>

WriteExtractFrom(pool) ==
    \E entries \in SUBSET pool, autoRemoveKey \in BOOLEAN :
        writeExtractFile(entries, autoRemoveKey)

WriteExtract == WriteExtractFrom(AllEntries)

\* a person edits a language file by hand between runs: sets a value or
\* removes a key
HumanEditIn(langs, values, canRemove) ==
    /\ tpass.pc = "idle"
    /\ \E l \in langs, k \in Keys :
          /\ k \in DOMAIN dict[l]
          /\ \/ \E v \in values :
                   /\ dict[l][k] /= v
                   /\ dict' = [dict EXCEPT ![l] = MapSet(dict[l], k, v)]
             \/ /\ canRemove
                /\ dict' = [dict EXCEPT ![l] = MapDel(dict[l], {k})]
    /\ last' = NoOp
    /\ UNCHANGED <<fileMapping, record, update, tpass, code, queue>>

HumanEdit == HumanEditIn(LangSet, {HumanText, EmptyStr}, FALSE)

IdlePass == [pc |-> "idle"]

InitRecon ==
    /\ fileMapping = EmptyMap
    /\ dict = [l \in LangSet |-> EmptyMap]
    /\ record = EmptyMap
    /\ last = NoOp
    /\ update = FALSE
    /\ tpass = IdlePass
    /\ code = NoCode
    /\ queue = NoQueue

NextRecon == WriteExtract \/ HumanEdit

SpecRecon == InitRecon /\ [][NextRecon]_vars

(***************************************************************************)
(* Translation Record manager: src/unnamed/part_006                        *)
(***************************************************************************)
isTranslated(rec, key, targetLang) ==
    /\ key \in DOMAIN rec
    /\ targetLang \in DOMAIN rec[key]
    /\ rec[key][targetLang] /= EmptyStr

addTranslation(rec, key, targetLang, translatedText) ==
    MapSet(rec, key,
           MapSet(IF key \in DOMAIN rec THEN rec[key] ELSE EmptyMap,
                  targetLang, translatedText))

initializeSourceTranslations(rec, sourceTexts, sourceLang) ==
    [k \in DOMAIN rec \cup DOMAIN sourceTexts |->
        IF k \in DOMAIN sourceTexts
        THEN MapSet(IF k \in DOMAIN rec THEN rec[k] ELSE EmptyMap, sourceLang, sourceTexts[k])
        ELSE rec[k]]

\* getKeysToTranslate without the isTranslated filter
AlwaysAllKeys(rec, allKeys, targetLang, forceUpdate) == allKeys

getKeysToTranslate(rec, allKeys, targetLang, forceUpdate) ==
    IF forceUpdate THEN allKeys
    ELSE {k \in allKeys : ~isTranslated(rec, k, targetLang)}

\* one language file after syncToLanguageFiles
SyncedLangData(rec, langData, lang) ==
    LET hit == {k \in DOMAIN rec : isTranslated(rec, k, lang)}
    IN  [k \in DOMAIN langData \cup hit |-> IF k \in hit THEN rec[k][lang] ELSE langData[k]]

syncToLanguageFiles(rec, files) ==
    [l \in LangSet |-> SyncedLangData(rec, files[l], l)]

\* forceRefreshLanguageFiles that copies every ledger entry, empty ones too
RefreshCopiesEmpty(rec, langs) ==
    [l \in langs |-> [k \in {x \in DOMAIN rec : l \in DOMAIN rec[x]} |-> rec[k][l]]]

\* forceRefreshLanguageFiles: the language files it writes
forceRefreshLanguageFiles(rec, langs) ==
    [l \in langs |-> [k \in {x \in DOMAIN rec : isTranslated(rec, x, l)} |-> rec[k][l]]]

\* forceUpdateTranslation(key, {[lang]: text})
forceUpdateTranslation(rec, key, lang, text) ==
    MapSet(rec, key,
           MapSet(IF key \in DOMAIN rec THEN rec[key] ELSE EmptyMap, lang, text))

(***************************************************************************)
(* Translation manager: src/unnamed/part_009                               *)
(***************************************************************************)
batchSize == 10

\* the keys of S in the order Object.keys lists them
SeqOfSet(S) == SelectSeq(KeyOrder, LAMBDA k : k \in S)

Take(q, n) == SubSeq(q, 1, IF Len(q) < n THEN Len(q) ELSE n)
Drop(q, n) == SubSeq(q, (IF Len(q) < n THEN Len(q) ELSE n) + 1, Len(q))
Range(q) == {q[i] : i \in 1..Len(q)}

TargetLangs == SelectSeq(Langs, LAMBDA l : l /= SourceLang)

\* the keys the Reconciler deleted from the language files in the call that
\* directly precedes this state
RemovedByLastWrite ==
    IF last.op = "writeExtractFile" /\ last.autoRemoveKey
    THEN DOMAIN last.diff.removedKeys ELSE {}

StartPass(kind, keys, sourceTexts, targetLanguages, rec) ==
    [pc |-> "run", kind |-> kind, keys |-> keys, sourceTexts |-> sourceTexts,
     langsLeft |-> targetLanguages, lang |-> SourceLang, pending |-> << >>,
     rec |-> rec, startDict |-> dict, failed |-> {}, sent |-> {},
     removed |-> RemovedByLastWrite]

DonePass(kind, startDict, failed, early, requested, sent, removed) ==
    [op |-> "translate", kind |-> kind, startDict |-> startDict,
     update |-> update, failed |-> failed, early |-> early,
     startRec |-> record, requested |-> requested, sent |-> sent,
     removed |-> removed]

\* translateProject up to its first await
translateProject ==
    /\ tpass.pc = "idle"
    /\ LET languageFiles == dict
           sourceTexts == languageFiles[SourceLang]
           rec1 == initializeSourceTranslations(record, sourceTexts, SourceLang)
           uniqueKeys == UNION {getKeysToTranslate(rec1, DOMAIN sourceTexts, l, update)
                                  : l \in Range(TargetLangs)}
       IN  IF DOMAIN sourceTexts = {} \/ uniqueKeys = {}
           THEN /\ last' = DonePass("project", dict, {}, TRUE, DOMAIN sourceTexts, {},
                                     RemovedByLastWrite)
                /\ UNCHANGED tpass
           ELSE /\ tpass' = StartPass("project", uniqueKeys, sourceTexts, TargetLangs, rec1)
                /\ last' = NoOp
    /\ UNCHANGED <<fileMapping, dict, record, update, code, queue>>

NewTranslateKeys(keys) ==
    LET sourceTexts == [k \in keys |-> SrcText(k)]
        rec1 == initializeSourceTranslations(record, sourceTexts, SourceLang)
    IN  StartPass("keys", keys, sourceTexts, Langs, rec1)

StartTranslateKeys(keys) == tpass' = NewTranslateKeys(keys)

\* translateKeys(keys) up to its first await
translateKeys(keys) ==
    /\ tpass.pc = "idle"
    /\ keys /= {}
    /\ StartTranslateKeys(keys)
    /\ last' = NoOp
    /\ UNCHANGED <<fileMapping, dict, record, update, code, queue>>

TranslateKeysCall == \E keys \in SUBSET Keys : translateKeys(keys)

\* executeTranslation: the head of the loop over the target languages
executeTranslationLang ==
    /\ tpass.pc = "run"
    /\ tpass.langsLeft /= << >>
    /\ LET targetLang == Head(tpass.langsLeft)
           filteredKeys == getKeysToTranslate(tpass.rec, tpass.keys, targetLang, update)
       IN  IF targetLang = SourceLang \/ filteredKeys = {}
           THEN tpass' = [tpass EXCEPT !.langsLeft = Tail(@)]
           ELSE tpass' = [tpass EXCEPT !.langsLeft = Tail(@), !.pc = "batch",
                                       !.lang = targetLang,
                                       !.pending = SeqOfSet(filteredKeys)]
    /\ UNCHANGED <<fileMapping, dict, record, last, update, code, queue>>

\* the result list translateBatch hands back: the provider translated the
\* texts of the keys in `ok`, and returned the original text for the others
\* (or threw, and translateBatch built the identity results itself)
BatchResult(batch, ok, lang) ==
    [j \in 1..Len(batch) |->
        LET text == tpass.sourceTexts[batch[j]]
        IN  [originalText |-> text,
             translatedText |-> IF batch[j] \in ok THEN Translated(text, lang) ELSE text]]

\* should batchTranslate record result `r`?
RecordsResult(r) == r.translatedText /= r.originalText

RECURSIVE SaveResults(_, _, _, _, _)
SaveResults(rec, batch, results, lang, j) ==
    IF j > Len(batch) THEN rec
    ELSE SaveResults(
            IF RecordsResult(results[j])
            THEN addTranslation(rec, batch[j], lang, results[j].translatedText)
            ELSE rec,
            batch, results, lang, j + 1)

\* batchTranslate: one batch, from the provider call to the saved results
batchTranslateStep ==
    /\ tpass.pc = "batch"
    /\ LET batch == Take(tpass.pending, batchSize)
           rest == Drop(tpass.pending, batchSize)
       IN  \E threw \in BOOLEAN, ok \in SUBSET Range(batch) :
              /\ threw => ok = {}
              /\ LET results == BatchResult(batch, ok, tpass.lang)
                 IN  tpass' = [tpass EXCEPT
                        !.rec = SaveResults(tpass.rec, batch, results, tpass.lang, 1),
                        !.failed = @ \cup {<<tpass.lang, k>> : k \in Range(batch) \ ok},
                        !.sent = @ \cup {<<tpass.lang, k>> : k \in Range(batch)},
                        !.pending = rest,
                        !.pc = IF rest = << >> THEN "run" ELSE "batch"]
    /\ UNCHANGED <<fileMapping, dict, record, last, update, code, queue>>

\* executeTranslation after the loop: save the record, sync the language files
\* recordManager.save() and syncToLanguageFiles at the end of the pass
SaveAndSync ==
    /\ record' = tpass.rec
    /\ dict' = syncToLanguageFiles(tpass.rec, dict)
    /\ last' = DonePass(tpass.kind, tpass.startDict, tpass.failed, FALSE,
                        DOMAIN tpass.sourceTexts, tpass.sent, tpass.removed)
    /\ tpass' = IdlePass

executeTranslationEnd ==
    /\ tpass.pc = "run"
    /\ tpass.langsLeft = << >>
    /\ SaveAndSync
    /\ UNCHANGED <<fileMapping, update, code, queue>>

InitTrans ==
    /\ fileMapping = EmptyMap
    /\ dict = [l \in LangSet |-> EmptyMap]
    /\ record = EmptyMap
    /\ last = NoOp
    /\ update \in BOOLEAN
    /\ tpass = IdlePass
    /\ code = NoCode
    /\ queue = NoQueue

NextTrans ==
    \/ WriteExtractFrom({Entry(k, "a.ts") : k \in Keys})
    \/ HumanEditIn({"en"}, {HumanText}, TRUE)
    \/ translateProject
    \/ TranslateKeysCall
    \/ executeTranslationLang
    \/ batchTranslateStep
    \/ executeTranslationEnd

SpecTrans == InitTrans /\ [][NextTrans]_vars

(***************************************************************************)
(* refreshLanguageFiles on arbitrary ledgers and language files.           *)
(***************************************************************************)
\* the text the ledger can hold for a key in a language
LedgerText(k, l) == IF l = SourceLang THEN SrcText(k) ELSE Translated(SrcText(k), l)

\* a language file that is missing or cannot be parsed, and one that holds
\* keys and values of its own
DictFiles == {EmptyMap, [k \in Keys |-> HumanText]}

InitRefresh ==
    /\ fileMapping = EmptyMap
    /\ dict \in [LangSet -> DictFiles]
    /\ record = EmptyMap
    /\ last = NoOp
    /\ update = FALSE
    /\ tpass = IdlePass
    /\ code = NoCode
    /\ queue = NoQueue

ForceUpdate ==
    /\ \E k \in Keys, l \in LangSet : \E text \in {EmptyStr, LedgerText(k, l)} :
          /\ ~(k \in DOMAIN record /\ l \in DOMAIN record[k] /\ record[k][l] = text)
          /\ record' = forceUpdateTranslation(record, k, l, text)
    /\ last' = NoOp
    /\ UNCHANGED <<fileMapping, dict, update, tpass, code, queue>>

refreshLanguageFiles ==
    /\ dict' = forceRefreshLanguageFiles(record, LangSet)
    /\ last' = [op |-> "refresh", startDict |-> dict, startRec |-> record,
                again |-> last.op = "refresh"]
    /\ UNCHANGED <<fileMapping, record, update, tpass, code, queue>>

NextRefresh ==
    \/ ForceUpdate
    \/ HumanEditIn(LangSet, {HumanText}, TRUE)
    \/ refreshLanguageFiles

SpecRefresh == InitRefresh /\ [][NextRefresh]_vars

(***************************************************************************)
(* detectI18NDifferences on arbitrary Usage Maps.                          *)
(***************************************************************************)
MaxDiffKeys == 3
DiffKeys == 1..MaxDiffKeys
UsageMaps == UNION {[ks -> (SUBSET Paths) \ {{}}] : ks \in SUBSET DiffKeys}

InitDiff ==
    /\ fileMapping \in UsageMaps
    /\ dict = [l \in LangSet |-> EmptyMap]
    /\ record = EmptyMap
    /\ last = NoOp
    /\ update = FALSE
    /\ tpass = IdlePass
    /\ code = NoCode
    /\ queue = NoQueue

DiffStep ==
    /\ last.op = "none"
    /\ \E newKeys \in UsageMaps :
          last' = [op |-> "diff", oldGroups |-> fileMapping, groups |-> newKeys,
                   diff |-> detectI18NDifferences(fileMapping, newKeys)]
    /\ UNCHANGED <<fileMapping, dict, record, update, tpass, code, queue>>

NextDiff == DiffStep

SpecDiff == InitDiff /\ [][NextDiff]_vars

(***************************************************************************)
(* The marking engine (markJsCode) and the extraction engine               *)
(* (extractFromJsCode).                                                    *)
(*                                                                         *)
(* A source text is its import count and a sequence of statements, one per *)
(* line group.  A statement is a template literal: the text that stands    *)
(* directly before its opening backtick (tag, a sequence of tokens, "."    *)
(* separating the identifiers of a member expression), its literal         *)
(* segments (quasis) and its interpolation slots (exprs).  A slot holds an *)
(* identifier or a nested template literal.  ignore says that the line     *)
(* before the statement is the ignore comment.  Marking inserts the tag    *)
(* text before the backtick, so the tag of the re-parsed text is the old   *)
(* tag text followed by the inserted text.  Statements stand outside JSX   *)
(* attributes.                                                             *)
(***************************************************************************)
ZhChars == {"zh1", "zh2"}
ZhText == <<"zh1">>
EnText == <<"x">>
i18nTag == <<"i18n">>
ignoreComment == TRUE
importConfig == TRUE
placeholderStart == <<"{">>
placeholderEnd == <<"}">>

hasChinese(str) == \E i \in 1..Len(str) : str[i] \in ZhChars

Letters == <<"a", "b", "c", "d", "e", "f", "g", "h", "i", "j", "k", "l", "m",
             "n", "o", "p", "q", "r", "s", "t", "u", "v", "w", "x", "y", "z">>

\* generateVarName without the repetition
SingleLetterName(index) == <<Letters[(97 + (index % 26)) - 96]>>

generateVarName(index) ==
    LET charCode == 97 + (index % 26)
        repeat == (index \div 26) + 1
    IN  [j \in 1..repeat |-> Letters[charCode - 96]]

\* the tag node the parser builds from the text before the backtick
TagType(tag) ==
    IF tag = << >> THEN "none"
    ELSE IF \E i \in 1..Len(tag) : tag[i] = "." THEN "MemberExpression"
    ELSE "Identifier"

IsI18nTagged(t) == TagType(t.tag) = "Identifier" /\ t.tag = i18nTag

hasIgnoreComment(stmt) == ignoreComment /\ stmt.ignore

\* the TemplateLiteral visitor on a statement: does it push a replacement?
\* (a template nested in a slot has a TemplateLiteral ancestor and is
\* never replaced)
PushesReplacement(stmt) ==
    /\ ~hasIgnoreComment(stmt)
    /\ ~IsI18nTagged(stmt)
    /\ ~(TagType(stmt.tag) = "Identifier" /\ stmt.tag /= i18nTag)
    /\ \E q \in 1..Len(stmt.quasis) : hasChinese(stmt.quasis[q])

\* content: `${i18nTag}${templateContent}` placed on [start, end)
ApplyReplacement(stmt) == [stmt EXCEPT !.tag = @ \o i18nTag]

Undefined == [defined |-> FALSE]
Returned(v) == [defined |-> TRUE, value |-> v]

markJsCode(c) ==
    LET replacements == {i \in 1..Len(c.stmts) : PushesReplacement(c.stmts[i])}
        hasChange == replacements /= {}
        i18nImportAdded == IF importConfig THEN c.imports > 0 ELSE TRUE
    IN  IF ~hasChange THEN Undefined
        ELSE Returned([imports |-> IF importConfig /\ ~i18nImportAdded
                                   THEN c.imports + 1 ELSE c.imports,
                       stmts |-> [i \in 1..Len(c.stmts) |->
                                     IF i \in replacements
                                     THEN ApplyReplacement(c.stmts[i])
                                     ELSE c.stmts[i]]])

\* the template literals of a source in traversal (pre-) order, each with
\* its position: <<i>> for statement i, <<i, j>> for the template in slot j
RECURSIVE NestedNodes(_, _, _)
NestedNodes(i, exprs, j) ==
    IF j > Len(exprs) THEN << >>
    ELSE (IF exprs[j].type = "TemplateLiteral"
          THEN <<[node |-> <<i, j>>, tpl |-> exprs[j]]>> ELSE << >>)
         \o NestedNodes(i, exprs, j + 1)

RECURSIVE TemplateNodes(_, _)
TemplateNodes(stmts, i) ==
    IF i > Len(stmts) THEN << >>
    ELSE <<[node |-> <<i>>, tpl |-> stmts[i]]>>
         \o NestedNodes(i, stmts[i].exprs, 1)
         \o TemplateNodes(stmts, i + 1)

\* the placeholder written before its segment instead of after it
RECURSIVE PlaceholderFirst(_, _, _, _)
PlaceholderFirst(quasis, nExpr, i, counter) ==
    IF i > Len(quasis) THEN << >>
    ELSE IF i <= nExpr
         THEN placeholderStart \o generateVarName(counter) \o placeholderEnd
                        \o quasis[i]
                        \o PlaceholderFirst(quasis, nExpr, i + 1, counter + 1)
         ELSE quasis[i] \o PlaceholderFirst(quasis, nExpr, i + 1, counter)

\* quasis.map(...).join(""): segment i followed by the placeholder of slot i
RECURSIVE NormalizedText(_, _, _, _)
NormalizedText(quasis, nExpr, i, counter) ==
    IF i > Len(quasis) THEN << >>
    ELSE IF i <= nExpr
         THEN quasis[i] \o placeholderStart \o generateVarName(counter)
                        \o placeholderEnd
                        \o NormalizedText(quasis, nExpr, i + 1, counter + 1)
         ELSE quasis[i] \o NormalizedText(quasis, nExpr, i + 1, counter)

\* a counter that restarts with every fragment
ResetCounter(variableCounter, nExpr) == 0

\* the value of variableCounter after the slots of one fragment
NextCounter(variableCounter, nExpr) == variableCounter + nExpr

TaggedEntry(n, variableCounter) ==
    LET nExpr == Len(n.tpl.exprs)
        normalizedText == NormalizedText(n.tpl.quasis, nExpr, 1, variableCounter)
    IN  [key |-> normalizedText, text |-> normalizedText,
         variables |-> [k \in 1..nExpr |-> generateVarName(variableCounter + k - 1)],
         node |-> n.node]

RECURSIVE VisitTagged(_, _, _)
VisitTagged(nodes, k, variableCounter) ==
    IF k > Len(nodes) THEN << >>
    ELSE IF IsI18nTagged(nodes[k].tpl)
         THEN <<TaggedEntry(nodes[k], variableCounter)>>
              \o VisitTagged(nodes, k + 1,
                             NextCounter(variableCounter, Len(nodes[k].tpl.exprs)))
         ELSE VisitTagged(nodes, k + 1, variableCounter)

extractFromJsCode(c) == VisitTagged(TemplateNodes(c.stmts, 1), 1, 0)

(***************************************************************************)
(* The sources the engines are run on.                                     *)
(***************************************************************************)
Tags == {<< >>, i18nTag, <<"foo">>, <<"String", ".", "raw">>}
Segs == {ZhText, EnText}
IdExpr == [type |-> "Identifier"]
NestedTpls ==
    {[type |-> "TemplateLiteral", tag |-> t, quasis |-> <<ZhText, EnText>>,
      exprs |-> <<IdExpr>>] : t \in {<< >>, i18nTag}}
Exprs == {IdExpr} \cup NestedTpls
Templates ==
    {[quasis |-> <<q>>, exprs |-> << >>] : q \in Segs}
    \cup {[quasis |-> <<q1, q2>>, exprs |-> <<e>>] :
             q1 \in Segs, q2 \in Segs, e \in Exprs}
    \cup {[quasis |-> <<q1, EnText, q3>>, exprs |-> <<IdExpr, e>>] :
             q1 \in Segs, q3 \in Segs, e \in Exprs}
Stmts ==
    {[ignore |-> ig, tag |-> t, quasis |-> tp.quasis, exprs |-> tp.exprs] :
        ig \in BOOLEAN, t \in Tags, tp \in Templates}
PlainStmts ==
    {s \in Stmts : ~s.ignore /\ s.tag \in {<< >>, i18nTag}
                   /\ \A j \in 1..Len(s.exprs) : s.exprs[j] = IdExpr
                   /\ s.quasis[1] = ZhText /\ Len(s.quasis) <= 2}
Sources ==
    {[imports |-> im, stmts |-> <<s>>] : im \in {0, 1}, s \in Stmts}
    \cup {[imports |-> 0, stmts |-> <<s, p>>] : s \in Stmts, p \in PlainStmts}

InitMark ==
    /\ code \in Sources
    /\ last = [op |-> "source", source |-> code]
    /\ fileMapping = EmptyMap
    /\ dict = [l \in LangSet |-> EmptyMap]
    /\ record = EmptyMap
    /\ update = FALSE
    /\ tpass = IdlePass
    /\ queue = NoQueue

\* mark the source; a rewritten text replaces the file
MarkFile ==
    /\ last.op \in {"source", "mark"}
    /\ last.op = "mark" => last.output.defined /\ ~last.again
    /\ LET output == markJsCode(code)
       IN  /\ last' = [op |-> "mark", source |-> last.source, input |-> code,
                       output |-> output, again |-> last.op = "mark"]
           /\ code' = IF output.defined THEN output.value ELSE code
    /\ UNCHANGED <<fileMapping, dict, record, update, tpass, queue>>

\* extract from the file as it stands (marked or not)
ExtractFile ==
    /\ last.op \in {"source", "mark"}
    /\ last' = [op |-> "extract", source |-> last.source, input |-> code,
                marked |-> (last.op = "mark" /\ ~last.again /\ last.output.defined),
                entries |-> extractFromJsCode(code)]
    /\ UNCHANGED <<fileMapping, dict, record, update, tpass, code, queue>>

\* temp.reduce((prev, cur, index) => prev{name(index)}cur) without an
\* initial value: prev starts as temp[0] and the callback is first called
\* with index 1 (position p of the sequence is index p - 1)
RECURSIVE ReduceTemplate(_, _, _)
ReduceTemplate(temp, prev, p) ==
    IF p > Len(temp) THEN prev
    ELSE ReduceTemplate(temp,
            prev \o <<"{">> \o generateVarName(p - 1) \o <<"}">> \o temp[p],
            p + 1)

\* the call of t made by the function createI18nTag returns, for a tagged
\* template with the strings temp and the values `values`
createI18nTag(temp, values) ==
    [template |-> ReduceTemplate(temp, temp[1], 2),
     params |-> [index \in 1..Len(values) |-> generateVarName(index - 1)]]

\* the tagged fragments of the file are evaluated at run time
RunTagged ==
    /\ last.op = "extract"
    /\ LET tagged == SelectSeq(TemplateNodes(code.stmts, 1),
                               LAMBDA n : IsI18nTagged(n.tpl))
       IN  last' = [op |-> "run", source |-> last.source, entries |-> last.entries,
                    calls |-> [k \in 1..Len(tagged) |->
                                 createI18nTag(tagged[k].tpl.quasis, tagged[k].tpl.exprs)]]
    /\ UNCHANGED <<fileMapping, dict, record, update, tpass, code, queue>>

NextMark == MarkFile \/ ExtractFile \/ RunTagged

SpecMark == InitMark /\ [][NextMark]_vars

(***************************************************************************)
(* markVueCode: the replacements of the template nodes, the script block   *)
(* and the script-setup block spliced into the file.                       *)
(*                                                                         *)
(* A file is a sequence of regions (template nodes, script, script setup)  *)
(* in the order they stand in the file, each between one-character gaps.   *)
(* grow[i] is the number of characters marking adds to region i; 0 means   *)
(* the region yields no replacement.                                       *)
(***************************************************************************)
MaxGrow == 2
MaxRegions == 3
RegionKinds == {"tnode", "script", "scriptSetup"}
GapText == <<"#">>

CountKind(ks, kind) == Cardinality({i \in 1..Len(ks) : ks[i] = kind})

\* one script block, one script-setup block, and the template nodes all
\* inside the one template block
RegionOrders ==
    {ks \in UNION {[1..n -> RegionKinds] : n \in 1..MaxRegions} :
        /\ CountKind(ks, "script") <= 1
        /\ CountKind(ks, "scriptSetup") <= 1
        /\ \A i, j \in 1..Len(ks) :
              (i < j /\ ks[i] = "tnode" /\ ks[j] = "tnode")
                  => \A m \in i..j : ks[m] = "tnode"}

VueFiles ==
    UNION {{[kinds |-> ks, grow |-> g] : g \in [1..Len(ks) -> 0..MaxGrow]} :
              ks \in RegionOrders}

OldCode(f, i) == <<f.kinds[i], "$">>
NewCode(f, i) == <<f.kinds[i]>> \o [j \in 1..f.grow[i] |-> "i18n"] \o <<"$">>

\* descriptor.source
RECURSIVE SourceFrom(_, _)
SourceFrom(f, i) ==
    IF i > Len(f.kinds) THEN GapText
    ELSE GapText \o OldCode(f, i) \o SourceFrom(f, i + 1)

\* node.loc.start.offset
RECURSIVE LocStart(_, _)
LocStart(f, i) ==
    IF i = 1 THEN Len(GapText)
    ELSE LocStart(f, i - 1) + Len(OldCode(f, i - 1)) + Len(GapText)

createReplaceItem(f, i) ==
    [start |-> LocStart(f, i), end |-> LocStart(f, i) + Len(OldCode(f, i)),
     offset |-> Len(NewCode(f, i)) - Len(OldCode(f, i)), code |-> NewCode(f, i)]

\* the replace items of the regions of one kind, in file order
RECURSIVE ItemsOfKind(_, _, _)
ItemsOfKind(f, kind, i) ==
    IF i > Len(f.kinds) THEN << >>
    ELSE (IF f.kinds[i] = kind /\ f.grow[i] > 0
          THEN <<createReplaceItem(f, i)>> ELSE << >>)
         \o ItemsOfKind(f, kind, i + 1)

\* template first, then script, then scriptSetup
ReplaceList(f) ==
    ItemsOfKind(f, "tnode", 1) \o ItemsOfKind(f, "script", 1)
        \o ItemsOfKind(f, "scriptSetup", 1)

Clamp(n, len) == IF n < 0 THEN 0 ELSE IF n > len THEN len ELSE n
SubstringTo(s, n) == SubSeq(s, 1, Clamp(n, Len(s)))
SubstringFrom(s, n) == SubSeq(s, Clamp(n, Len(s)) + 1, Len(s))

RECURSIVE SpliceList(_, _, _, _)
SpliceList(newCode, replaceList, i, totalOffset) ==
    IF i > Len(replaceList) THEN newCode
    ELSE SpliceList(SubstringTo(newCode, replaceList[i].start + totalOffset)
                        \o replaceList[i].code
                        \o SubstringFrom(newCode, replaceList[i].end + totalOffset),
                    replaceList, i + 1, totalOffset + replaceList[i].offset)

markVueCode(f) ==
    LET replaceList == ReplaceList(f)
    IN  IF Len(replaceList) = 0 THEN Undefined
        ELSE Returned(SpliceList(SourceFrom(f, 1), replaceList, 1, 0))

InitVue ==
    /\ code \in VueFiles
    /\ last = NoOp
    /\ fileMapping = EmptyMap
    /\ dict = [l \in LangSet |-> EmptyMap]
    /\ record = EmptyMap
    /\ update = FALSE
    /\ tpass = IdlePass
    /\ queue = NoQueue

MarkVueFile ==
    /\ last.op = "none"
    /\ last' = [op |-> "markVue", file |-> code, output |-> markVueCode(code)]
    /\ UNCHANGED <<fileMapping, dict, record, update, tpass, code, queue>>

NextVue == MarkVueFile

SpecVue == InitVue /\ [][NextVue]_vars

(***************************************************************************)
(* The vite plugin's ExtractQueue.                                         *)
(*                                                                         *)
(* queue holds the fields of the object and the callbacks it has handed to *)
(* the event loop: the 50 ms timers of scheduleExtractWithDelay, the       *)
(* queued extract microtask, the scheduleExtract calls sleeping in         *)
(* delay(100), the scheduleTranslate calls sleeping in delay(2000) and the *)
(* caller of waitForAllOperations.  The translateKeys call in flight is    *)
(* the translation pass in tpass.  A queued microtask runs before any      *)
(* timer or I/O callback; only another add() can come before it.  The      *)
(* transform phase (add, scheduleTranslate calls) ends when                *)
(* waitForAllOperations is called.  added, flushes and flushed are history:*)
(* the entries handed to add() so far, the number of writeExtractFile      *)
(* calls made by the queue and the entries of the last of them.            *)
(***************************************************************************)
MaxAdds == 2
MaxCalls == 2
QueueEntries == {Entry("k1", "a.ts"), Entry("k2", "b.vue")}

NewQueue(isProduction) ==
    [extractEntries |-> {}, isExtracting |-> FALSE, isTranslating |-> FALSE,
     pendingOperations |-> {}, isProduction |-> isProduction,
     timers |-> 0, microtask |-> FALSE, extractWaiters |-> 0,
     translateWaiters |-> << >>, waiter |-> "none", lateWrite |-> FALSE,
     adds |-> 0, calls |-> 0, added |-> {}, flushes |-> 0, flushed |-> {},
     handed |-> Undefined, inflight |-> 0, flushedAll |-> {}, retained |-> {}]

\* what extract() receives from writeExtractFile, which returns no value
WriteExtractFileResult(diff) == Undefined

\* scheduleExtract(): wait while a flush is in flight, else take the flag
\* and queue the extract microtask
scheduleExtract(q) ==
    IF q.isExtracting
    THEN [q EXCEPT !.extractWaiters = @ + 1]
    ELSE [q EXCEPT !.isExtracting = TRUE, !.microtask = TRUE]

\* does scheduleTranslate(keys) reach translateKeys?  translate() reads
\* keys.length, which throws for an undefined keys
StartsTranslation(q, keys) ==
    ~q.isTranslating /\ keys.defined /\ keys.value /= {}

\* scheduleTranslate without the test of isTranslating
scheduleTranslateNoFlag(q, keys) ==
    IF ~keys.defined
    THEN [q EXCEPT !.isTranslating = TRUE]
    ELSE IF keys.value = {}
         THEN [q EXCEPT !.isTranslating = FALSE]
         ELSE [q EXCEPT !.isTranslating = TRUE,
                        !.pendingOperations = @ \cup {"translatePromise"},
                        !.inflight = @ + 1]

\* scheduleTranslate(keys) followed by translate(keys)
scheduleTranslate(q, keys) ==
    IF q.isTranslating
    THEN [q EXCEPT !.translateWaiters = Append(@, keys)]
    ELSE IF ~keys.defined
         THEN [q EXCEPT !.isTranslating = TRUE]
         ELSE IF keys.value = {}
              THEN [q EXCEPT !.isTranslating = FALSE]
              ELSE [q EXCEPT !.isTranslating = TRUE,
                             !.pendingOperations = @ \cup {"translatePromise"},
                             !.inflight = @ + 1]

TranslationEffect(q, keys) ==
    IF StartsTranslation(q, keys)
    THEN tpass' = [NewTranslateKeys(keys.value) EXCEPT !.removed = {}]
    ELSE UNCHANGED tpass

\* add(entries)
add(entries) ==
    /\ queue.waiter = "none"
    /\ queue.adds < MaxAdds
    /\ LET q == [queue EXCEPT !.extractEntries = @ \cup entries, !.adds = @ + 1,
                              !.added = @ \cup entries]
       IN  queue' = IF ~q.isProduction
                    THEN scheduleExtract(q)
                    ELSE [q EXCEPT !.timers = @ + 1]
    /\ UNCHANGED <<fileMapping, dict, record, last, update, tpass, code>>

AddCall == \E entries \in (SUBSET QueueEntries) \ {{}} : add(entries)

\* the callback of scheduleExtractWithDelay's timer
DelayTimerFires ==
    /\ queue.timers > 0
    /\ ~queue.microtask
    /\ LET q == [queue EXCEPT !.timers = @ - 1]
       IN  queue' = IF q.extractEntries /= {} THEN scheduleExtract(q) ELSE q
    /\ UNCHANGED <<fileMapping, dict, record, last, update, tpass, code>>

\* a scheduleExtract call comes back from delay(100) and calls itself
ExtractRetry ==
    /\ queue.extractWaiters > 0
    /\ ~queue.microtask
    /\ queue' = scheduleExtract([queue EXCEPT !.extractWaiters = @ - 1])
    /\ UNCHANGED <<fileMapping, dict, record, last, update, tpass, code>>

\* extract(), run as the queued microtask; `kept` is what the buffer holds
\* when writeExtractFile has thrown
extractKeeping(kept) ==
    /\ queue.microtask
    /\ LET q == [queue EXCEPT !.microtask = FALSE, !.isExtracting = FALSE]
       IN  IF queue.extractEntries = {}
           THEN /\ queue' = q
                /\ UNCHANGED <<fileMapping, dict, last, tpass>>
           ELSE \E threw \in BOOLEAN :
                  IF threw
                  THEN /\ queue' = [q EXCEPT !.extractEntries = kept,
                                             !.retained = queue.extractEntries]
                       /\ UNCHANGED <<fileMapping, dict, last, tpass>>
                  ELSE LET uniqueEntries == queue.extractEntries
                           keys == WriteExtractFileResult(
                                      detectI18NDifferences(fileMapping,
                                          groupEntriesByKey(uniqueEntries)))
                           flushed == [q EXCEPT !.extractEntries = {},
                                                !.lateWrite = @ \/ q.waiter = "resolved",
                                                !.flushes = @ + 1,
                                                !.flushed = uniqueEntries,
                                                !.flushedAll = @ \cup uniqueEntries,
                                                !.handed = keys]
                       IN  /\ WriteFiles(uniqueEntries, queue.isProduction)
                           /\ queue' = scheduleTranslate(flushed, keys)
                           /\ TranslationEffect(flushed, keys)
    /\ UNCHANGED <<record, update, code>>

\* extract() with the buffer emptied before writeExtractFile is called
extractClearsFirst == extractKeeping({})

extract == extractKeeping(queue.extractEntries)

\* scheduleTranslate(keys) called on the queue
ScheduleTranslateCall ==
    /\ queue.waiter = "none"
    /\ ~queue.microtask
    /\ queue.calls < MaxCalls
    /\ \E ks \in SUBSET Keys :
          LET q == [queue EXCEPT !.calls = @ + 1]
          IN  /\ queue' = scheduleTranslate(q, Returned(ks))
              /\ TranslationEffect(q, Returned(ks))
    /\ UNCHANGED <<fileMapping, dict, record, last, update, code>>

\* a scheduleTranslate call comes back from delay(2000) and calls itself
TranslateRetry ==
    /\ queue.translateWaiters /= << >>
    /\ ~queue.microtask
    /\ LET keys == Head(queue.translateWaiters)
           q == [queue EXCEPT !.translateWaiters = Tail(@)]
       IN  /\ queue' = scheduleTranslate(q, keys)
           /\ TranslationEffect(q, keys)
    /\ UNCHANGED <<fileMapping, dict, record, last, update, code>>

\* translateKeys settles: the pass saves and syncs, the finally callback
\* clears the flag and removes the promise, and a waitForAllOperations
\* call awaiting it goes on
TranslateSettled ==
    /\ tpass.pc = "run"
    /\ tpass.langsLeft = << >>
    /\ ~queue.microtask
    /\ SaveAndSync
    /\ LET q == [queue EXCEPT !.isTranslating = FALSE,
                              !.inflight = @ - 1,
                              !.pendingOperations = @ \ {"translatePromise"},
                              !.lateWrite = @ \/ queue.waiter = "resolved"]
       IN  queue' = IF q.waiter = "awaiting" /\ q.pendingOperations = {}
                    THEN [q EXCEPT !.waiter = "resolved"]
                    ELSE q
    /\ UNCHANGED <<fileMapping, update, code>>

\* waitForAllOperations() up to its await
waitForAllOperations ==
    /\ queue.waiter = "none"
    /\ ~queue.microtask
    /\ queue' = IF queue.pendingOperations = {}
                THEN [queue EXCEPT !.waiter = "resolved"]
                ELSE [queue EXCEPT !.waiter = "awaiting"]
    /\ UNCHANGED <<fileMapping, dict, record, last, update, tpass, code>>

TranslateStep ==
    /\ ~queue.microtask
    /\ (executeTranslationLang \/ batchTranslateStep)

InitQueue ==
    /\ fileMapping = EmptyMap
    /\ dict = [l \in LangSet |-> EmptyMap]
    /\ record = EmptyMap
    /\ last = NoOp
    /\ update = FALSE
    /\ tpass = IdlePass
    /\ code = NoCode
    /\ \E isProduction \in BOOLEAN : queue = NewQueue(isProduction)

NextQueue ==
    \/ AddCall
    \/ DelayTimerFires
    \/ ExtractRetry
    \/ extract
    \/ ScheduleTranslateCall
    \/ TranslateRetry
    \/ TranslateStep
    \/ TranslateSettled
    \/ waitForAllOperations

SpecQueue == InitQueue /\ [][NextQueue]_vars

\* the queue with its scheduled callbacks run: a queued microtask, a timer,
\* a delay that has elapsed and a step of a running translation are not
\* postponed forever; calls from outside carry no such condition
SpecQueueLive ==
    /\ SpecQueue
    /\ WF_vars(extract)
    /\ WF_vars(DelayTimerFires)
    /\ WF_vars(ExtractRetry)
    /\ WF_vars(TranslateRetry)
    /\ WF_vars(TranslateStep)
    /\ WF_vars(TranslateSettled)

(***************************************************************************)
(* A mark run and an extract run over a list of files: src/src/mark.ts,    *)
(* src/src/extract.ts.  A file is "bad" (the parser throws on it), "plain" *)
(* (it parses and holds nothing to mark or extract) or it holds one        *)
(* fragment whose key is its content.                                      *)
(***************************************************************************)
RunContents == {"bad", "plain"} \cup Keys
RunOrders == {<<"a.ts", "b.vue">>, <<"b.vue", "a.ts">>}
RunFiles ==
    {[i \in 1..2 |-> [path |-> o[i], content |-> c[i]]] :
        o \in RunOrders, c \in [1..2 -> RunContents]}

\* markJsCode / markVueCode on a file of the run: the parse error is caught
\* and logged, and the function returns undefined; so it does when nothing
\* was changed
markCode(f) ==
    IF f.content \in Keys THEN Returned(<<"marked", f.content>>) ELSE Undefined

\* does extractFromJsCode / extractFromVueCode throw on the file?  parse is
\* called outside any try block
extractThrows(f) == f.content = "bad"

\* extractCode on a file that parses
extractCode(f) ==
    IF f.content \in Keys THEN {Entry(f.content, f.path)} ELSE {}

NewRun(kind, files) ==
    [pc |-> "files", kind |-> kind, files |-> files, i |-> 1,
     written |-> {}, entries |-> {}]

InitRun ==
    /\ fileMapping = EmptyMap
    /\ dict = [l \in LangSet |-> EmptyMap]
    /\ record = EmptyMap
    /\ last = NoOp
    /\ update = FALSE
    /\ tpass = IdlePass
    /\ code \in {NewRun(kind, files) : kind \in {"mark", "extract"}, files \in RunFiles}
    /\ queue = NoQueue

\* mark(): one turn of the loop over the files, markFile(filePath)
markFile ==
    /\ code.pc = "files" /\ code.kind = "mark"
    /\ code.i <= Len(code.files)
    /\ LET f == code.files[code.i]
           newCode == markCode(f)
       IN  code' = [code EXCEPT
                      !.i = @ + 1,
                      !.written = IF newCode.defined THEN @ \cup {f.path} ELSE @,
                      !.pc = IF code.i = Len(code.files) THEN "done" ELSE "files"]
    /\ UNCHANGED <<fileMapping, dict, record, last, update, tpass, queue>>

\* extractFiles(): one turn of filePaths.forEach, extractCode(code, config, filePath)
extractFilesStep ==
    /\ code.pc = "files" /\ code.kind = "extract"
    /\ code.i <= Len(code.files)
    /\ LET f == code.files[code.i]
       IN  code' = IF extractThrows(f)
                   THEN [code EXCEPT !.pc = "thrown"]
                   ELSE [code EXCEPT
                           !.i = @ + 1,
                           !.entries = @ \cup extractCode(f),
                           !.pc = IF code.i = Len(code.files) THEN "write" ELSE "files"]
    /\ UNCHANGED <<fileMapping, dict, record, last, update, tpass, queue>>

\* extractFiles(): writeExtractFile(entries, config) after the loop
extractFilesEnd ==
    /\ code.pc = "write"
    /\ code' = [code EXCEPT !.pc = "done"]
    /\ IF code.entries = {}
       THEN UNCHANGED <<fileMapping, dict, last>>
       ELSE WriteFiles(code.entries, TRUE)
    /\ UNCHANGED <<record, update, tpass, queue>>

NextRun ==
    \/ markFile
    \/ extractFilesStep
    \/ extractFilesEnd

SpecRun == InitRun /\ [][NextRun]_vars

(***************************************************************************)
(* markJsCode's import statement: src/src/mark-js.ts.  An import           *)
(* declaration is its source path and the set of its specifiers.           *)
(***************************************************************************)
MaxImports == 2
ImportPaths == {"p", "q"}
TagName == "i18n"
Specifiers ==
    {[type |-> "ImportDefaultSpecifier"], [type |-> "ImportNamespaceSpecifier"],
     [type |-> "ImportSpecifier", imported |-> TagName],
     [type |-> "ImportSpecifier", imported |-> "other"]}
ImportDecls ==
    {[source |-> src, specifiers |-> sp] :
        src \in ImportPaths, sp \in {{}} \cup {{x} : x \in Specifiers}}
ImportLists == UNION {[1..n -> ImportDecls] : n \in 0..MaxImports}

I18nImportType == {"default", "named", "namespace"}
\* the normalized i18nImport option: null, or a path, a type and a name that
\* may be left out
ImportConfigs ==
    {Undefined} \cup
    {Returned([path |-> "p", type |-> t, name |-> n]) :
        t \in I18nImportType, n \in {"", TagName}}

\* the declaration that the statement of generateI18nImport parses to
generateI18nImport(config, tag) ==
    LET name == IF config.name /= "" THEN config.name ELSE tag
    IN  [source |-> config.path,
         specifiers |->
            IF config.type = "named"
            THEN {[type |-> "ImportSpecifier", imported |-> name]}
            ELSE IF config.type = "namespace"
                 THEN {[type |-> "ImportNamespaceSpecifier"]}
                 ELSE {[type |-> "ImportDefaultSpecifier"]}]

\* the test hasExistingImport makes on one declaration from config.path
SpecifiersMatch(specifiers, config) ==
    IF config.type = "named"
    THEN IF config.name /= ""
         THEN \E spec \in specifiers :
                 spec.type = "ImportSpecifier" /\ spec.imported = config.name
         ELSE FALSE
    ELSE IF config.type = "default"
         THEN \E spec \in specifiers : spec.type = "ImportDefaultSpecifier"
         ELSE \E spec \in specifiers : spec.type = "ImportNamespaceSpecifier"

\* hasExistingImport: the traversal assigns hasImport at every declaration
\* from config.path, so the value of the last such declaration is returned
RECURSIVE hasExistingImportFrom(_, _, _, _)
hasExistingImportFrom(decls, config, i, hasImport) ==
    IF i > Len(decls) THEN hasImport
    ELSE hasExistingImportFrom(decls, config, i + 1,
            IF decls[i].source = config.path
            THEN SpecifiersMatch(decls[i].specifiers, config)
            ELSE hasImport)

hasExistingImport(decls, config) == hasExistingImportFrom(decls, config, 1, FALSE)

\* the import declarations of markJsCode's output, or undefined when no
\* replacement was made
markJsImports(decls, hasChange, option) ==
    LET i18nImportAdded ==
            IF option.defined THEN hasExistingImport(decls, option.value) ELSE TRUE
    IN  IF ~hasChange THEN Undefined
        ELSE IF option.defined /\ ~i18nImportAdded
             THEN Returned(<<generateI18nImport(option.value, TagName)>> \o decls)
             ELSE Returned(decls)

InitImport ==
    /\ fileMapping = EmptyMap
    /\ dict = [l \in LangSet |-> EmptyMap]
    /\ record = EmptyMap
    /\ last = NoOp
    /\ update = FALSE
    /\ tpass = IdlePass
    /\ code \in {[pc |-> "in", decls |-> d, hasChange |-> h, option |-> o] :
                    d \in ImportLists, h \in BOOLEAN, o \in ImportConfigs}
    /\ queue = NoQueue

MarkImports ==
    /\ code.pc = "in"
    /\ code' = [pc |-> "out", decls |-> code.decls, hasChange |-> code.hasChange,
                option |-> code.option,
                out |-> markJsImports(code.decls, code.hasChange, code.option)]
    /\ UNCHANGED <<fileMapping, dict, record, last, update, tpass, queue>>

NextImport == MarkImports

SpecImport == InitImport /\ [][NextImport]_vars

(***************************************************************************)
(* generateVarName on pairs of indexes: src/src/utils.ts                   *)
(***************************************************************************)
MaxIndex == 53

InitNames ==
    /\ fileMapping = EmptyMap
    /\ dict = [l \in LangSet |-> EmptyMap]
    /\ record = EmptyMap
    /\ last = NoOp
    /\ update = FALSE
    /\ tpass = IdlePass
    /\ code \in {[pc |-> "in", i |-> i, j |-> j] : i, j \in 0..MaxIndex}
    /\ queue = NoQueue

GenerateNames ==
    /\ code.pc = "in"
    /\ code' = [pc |-> "out", i |-> code.i, j |-> code.j,
                iName |-> generateVarName(code.i), jName |-> generateVarName(code.j)]
    /\ UNCHANGED <<fileMapping, dict, record, last, update, tpass, queue>>

NextNames == GenerateNames

SpecNames == InitNames /\ [][NextNames]_vars

(***************************************************************************)
(* TencentTranslateService.batchTranslate under the manager's              *)
(* batchTranslate: src/src/translation/services/tencent.ts,                *)
(* src/unnamed/part_009.  A text is its key, its length and its language.  *)
(***************************************************************************)
MaxTexts == 3
MaxChars == 3
TextLists ==
    UNION {{[i \in 1..n |-> [key |-> i, length |-> len[i], lang |-> "zh"]] :
                len \in [1..n -> 1..MaxChars]}
              : n \in 0..MaxTexts}

\* splitTextsToBatches that puts all texts into one batch
OneBatch(texts, maxCharsPerBatch) == IF texts = << >> THEN << >> ELSE <<texts>>

\* the loop of splitTextsToBatches from text i on
RECURSIVE SplitFrom(_, _, _, _, _, _)
SplitFrom(texts, maxCharsPerBatch, i, batches, currentBatch, currentBatchChars) ==
    IF i > Len(texts)
    THEN IF Len(currentBatch) > 0 THEN Append(batches, currentBatch) ELSE batches
    ELSE LET text == texts[i]
             textLength == text.length
         IN  IF textLength > maxCharsPerBatch
             THEN SplitFrom(texts, maxCharsPerBatch, i + 1,
                      (IF Len(currentBatch) > 0 THEN Append(batches, currentBatch)
                       ELSE batches) \o <<(<<text>>)>>,
                      IF Len(currentBatch) > 0 THEN << >> ELSE currentBatch,
                      IF Len(currentBatch) > 0 THEN 0 ELSE currentBatchChars)
             ELSE IF currentBatchChars + textLength > maxCharsPerBatch /\ Len(currentBatch) > 0
                  THEN SplitFrom(texts, maxCharsPerBatch, i + 1,
                           Append(batches, currentBatch), <<text>>, textLength)
                  ELSE SplitFrom(texts, maxCharsPerBatch, i + 1,
                           batches, Append(currentBatch, text),
                           currentBatchChars + textLength)

splitTextsToBatches(texts, maxCharsPerBatch) ==
    SplitFrom(texts, maxCharsPerBatch, 1, << >>, << >>, 0)

\* the results of one TextTranslateBatch request that succeeded
tencentTranslateBatch(texts) ==
    [index \in 1..Len(texts) |->
        [originalText |-> texts[index],
         translatedText |-> [texts[index] EXCEPT !.lang = "en"]]]

InitTencent ==
    /\ fileMapping = EmptyMap
    /\ dict = [l \in LangSet |-> EmptyMap]
    /\ record = EmptyMap
    /\ last = NoOp
    /\ update = FALSE
    /\ tpass = IdlePass
    /\ code \in {[pc |-> "split", texts |-> t, max |-> m] :
                    t \in TextLists, m \in 1..MaxChars}
    /\ queue = NoQueue

\* batchTranslate up to its loop
tencentSplit ==
    /\ code.pc = "split"
    /\ code' = [pc |-> "batches", texts |-> code.texts, max |-> code.max,
                batches |-> splitTextsToBatches(code.texts, code.max),
                next |-> 1, results |-> << >>, failed |-> {}, saved |-> EmptyMap]
    /\ UNCHANGED <<fileMapping, dict, record, last, update, tpass, queue>>

\* batchTranslate: one turn of the loop; a request that throws is logged
\* and adds no results
tencentBatchStep ==
    /\ code.pc = "batches"
    /\ code.next <= Len(code.batches)
    /\ \E threw \in BOOLEAN :
          code' = [code EXCEPT
                     !.next = @ + 1,
                     !.failed = IF threw THEN @ \cup {code.next} ELSE @,
                     !.results = IF threw THEN @
                                 ELSE @ \o tencentTranslateBatch(code.batches[code.next])]
    /\ UNCHANGED <<fileMapping, dict, record, last, update, tpass, queue>>

\* the manager's batchTranslate saves result j under key batch[j]
RECURSIVE SaveByIndex(_, _, _, _)
SaveByIndex(saved, batch, batchResults, j) ==
    IF j > Len(batch) THEN saved
    ELSE SaveByIndex(
            IF j <= Len(batchResults)
               /\ batchResults[j].translatedText /= batchResults[j].originalText
            THEN MapSet(saved, batch[j].key, batchResults[j].translatedText)
            ELSE saved,
            batch, batchResults, j + 1)

managerSave ==
    /\ code.pc = "batches"
    /\ code.next > Len(code.batches)
    /\ code' = [code EXCEPT !.pc = "saved",
                            !.saved = SaveByIndex(EmptyMap, code.texts, code.results, 1)]
    /\ UNCHANGED <<fileMapping, dict, record, last, update, tpass, queue>>

NextTencent ==
    \/ tencentSplit
    \/ tencentBatchStep
    \/ managerSave

SpecTencent == InitTencent /\ [][NextTencent]_vars

(***************************************************************************)
(* writeExtractFile statement by statement: src/src/extract.ts.  A read or *)
(* a write of a file may throw, which ends the call.                       *)
(***************************************************************************)
\* a write order with the language files before the Usage Map
LangsThenMap == <<"langs", "map">>

\* the order of the writes in writeExtractFile
WriteOrder == <<"map", "langs">>

\* the files the call finds: none, or those of an earlier call
PriorFiles ==
    {[groups |-> EmptyMap, data |-> [l \in LangSet |-> EmptyMap]],
     [groups |-> groupEntriesByKey({Entry(k, "a.ts") : k \in Keys}),
      data |-> [l \in LangSet |-> [k \in Keys |-> SrcText(k)]]]}

InitWrite ==
    /\ \E prior \in PriorFiles :
          /\ fileMapping = prior.groups
          /\ dict = prior.data
    /\ record = EmptyMap
    /\ last = NoOp
    /\ update = FALSE
    /\ tpass = IdlePass
    /\ code \in {[pc |-> "call", entries |-> e, autoRemoveKey |-> r] :
                    e \in (SUBSET AllEntries) \ {{}}, r \in BOOLEAN}
    /\ queue = NoQueue

\* oldGroups read, groups and diff computed
writeDiff ==
    /\ code.pc = "call"
    /\ \E threw \in BOOLEAN :
          code' = IF threw THEN [code EXCEPT !.pc = "thrown"]
                  ELSE LET groups == groupEntriesByKey(code.entries)
                       IN  [pc |-> "write", entries |-> code.entries,
                            autoRemoveKey |-> code.autoRemoveKey,
                            oldGroups |-> fileMapping, oldDict |-> dict,
                            groups |-> groups,
                            diff |-> detectI18NDifferences(fileMapping, groups),
                            step |-> 1, langsLeft |-> Langs,
                            mapWritten |-> FALSE, langsWritten |-> {}]
    /\ UNCHANGED <<fileMapping, dict, record, last, update, tpass, queue>>

\* writeFileByCode(groupFilePath, ...)
writeUsageMap ==
    /\ code.pc = "write"
    /\ code.step <= Len(WriteOrder) /\ WriteOrder[code.step] = "map"
    /\ \E threw \in BOOLEAN :
          IF threw
          THEN /\ code' = [code EXCEPT !.pc = "thrown"]
               /\ UNCHANGED fileMapping
          ELSE /\ code' = [code EXCEPT !.step = @ + 1, !.mapWritten = TRUE]
               /\ fileMapping' = PersistedGroups(code.oldGroups, code.groups,
                                                 code.autoRemoveKey)
    /\ UNCHANGED <<dict, record, last, update, tpass, queue>>

\* langs.forEach: one language file read, changed and written
writeLangFile ==
    /\ code.pc = "write"
    /\ code.step <= Len(WriteOrder) /\ WriteOrder[code.step] = "langs"
    /\ code.langsLeft /= << >>
    /\ LET lang == Head(code.langsLeft)
       IN  \E threw \in BOOLEAN :
              IF threw
              THEN /\ code' = [code EXCEPT !.pc = "thrown"]
                   /\ UNCHANGED dict
              ELSE /\ code' = [code EXCEPT
                                 !.langsLeft = Tail(@),
                                 !.langsWritten = @ \cup {lang},
                                 !.step = IF Tail(code.langsLeft) = << >> THEN @ + 1 ELSE @]
                   /\ dict' = [dict EXCEPT ![lang] =
                                 LangDataAfter(dict[lang], code.entries, code.diff,
                                               code.autoRemoveKey)]
    /\ UNCHANGED <<fileMapping, record, last, update, tpass, queue>>

\* the call returns
writeReturn ==
    /\ code.pc = "write"
    /\ code.step > Len(WriteOrder)
    /\ code' = [code EXCEPT !.pc = "done"]
    /\ UNCHANGED <<fileMapping, dict, record, last, update, tpass, queue>>

NextWrite ==
    \/ writeDiff
    \/ writeUsageMap
    \/ writeLangFile
    \/ writeReturn

SpecWrite == InitWrite /\ [][NextWrite]_vars

(***************************************************************************)
(* toSafeTemplateLiteral: src/src/utils.ts.  A string is a sequence of     *)
(* characters; "bs" is the backslash and "bt" the backtick.                *)
(***************************************************************************)
MaxStrLen == 3
Chars == {"bs", "bt", "$", "{", "n", "s"}
Strings == UNION {[1..n -> Chars] : n \in 0..MaxStrLen}

\* the loop of toSafeTemplateLiteral from character i on
RECURSIVE SafeFrom(_, _)
SafeFrom(str, i) ==
    IF i > Len(str) THEN << >>
    ELSE LET char == str[i]
             nextChar == IF i + 1 <= Len(str) THEN str[i + 1] ELSE ""
         IN  IF char = "bs" /\ nextChar \notin {"n", "s"}
             THEN <<"bs", "bs">> \o SafeFrom(str, i + 1)
             ELSE IF char = "bt"
                  THEN <<"bs", "bt">> \o SafeFrom(str, i + 1)
                  ELSE IF char = "$" /\ i + 1 <= Len(str) /\ str[i + 1] = "{"
                       THEN <<"bs", "$", "{">> \o SafeFrom(str, i + 2)
                       ELSE <<char>> \o SafeFrom(str, i + 1)

\* the text between the backticks of toSafeTemplateLiteral(str)
toSafeTemplateLiteral(str) == SafeFrom(str, 1)

InitEscape ==
    /\ fileMapping = EmptyMap
    /\ dict = [l \in LangSet |-> EmptyMap]
    /\ record = EmptyMap
    /\ last = NoOp
    /\ update = FALSE
    /\ tpass = IdlePass
    /\ code \in {[pc |-> "value", str |-> str] : str \in Strings}
    /\ queue = NoQueue

\* the StringLiteral visitor: the replacement written for the literal
MarkStringLiteral ==
    /\ code.pc = "value"
    /\ code' = [pc |-> "literal", str |-> code.str,
                content |-> toSafeTemplateLiteral(code.str)]
    /\ UNCHANGED <<fileMapping, dict, record, last, update, tpass, queue>>

NextEscape == MarkStringLiteral

SpecEscape == InitEscape /\ [][NextEscape]_vars

(***************************************************************************)
(* hasIgnoreComment: src/src/mark-js.ts and src/src/mark/mark-vue.ts.      *)
(* A source is the sequence of its comments and candidate nodes in source  *)
(* order, so an item's index stands for its offset.  A comment carries the *)
(* line it ends on and its trimmed text, a node the line it starts on and, *)
(* in a Vue template, the element that holds it (0 at the top level).      *)
(***************************************************************************)
MaxItems == 3
MaxLine == 3
CommentTexts == {"", "i18n-ignore"}
IgnoreOptions == {"", "i18n-ignore"}
SourceItems ==
    [type : {"comment"}, line : 1..MaxLine, text : CommentTexts, parent : {0}]
        \cup [type : {"node"}, line : 1..MaxLine, text : {"zh"}, parent : 0..(MaxItems - 1)]
WellFormed(kind, src) ==
    \A i \in 1..Len(src) :
        /\ i > 1 => src[i - 1].line <= src[i].line
        /\ src[i].parent < i
        /\ src[i].parent > 0 =>
               kind = "vue" /\ src[src[i].parent].type = "node"
IgnoreSources(kind) ==
    {src \in UNION {[1..n -> SourceItems] : n \in 1..MaxItems} : WellFormed(kind, src)}

\* an annotation that would reach every node after it, whatever the line
IgnoreEveryLaterNode(src, i, option) ==
    /\ option /= ""
    /\ \E c \in 1..Len(src) :
           src[c].type = "comment" /\ src[c].text = option /\ c < i

\* mark-js.ts: the closure hasIgnoreComment of markJsCode
hasIgnoreCommentJs(src, i, option) ==
    IF option = "" THEN FALSE
    ELSE LET nodeLine == src[i].line
         IN  IF nodeLine <= 1 THEN FALSE
             ELSE \E c \in 1..Len(src) :
                      /\ src[c].type = "comment"
                      /\ src[c].line = nodeLine - 1
                      /\ src[c].text = option
                      /\ c < i

\* mark-vue.ts: the comment nodes markVueCode collects
collectI18nCommentNodes(src, option) ==
    IF option = "" THEN {}
    ELSE {c \in 1..Len(src) : src[c].type = "comment" /\ src[c].text = option}

\* mark-vue.ts: hasIgnoreComment
hasIgnoreCommentVue(src, i, commentNodes) ==
    LET nodeStartLine == src[i].line
    IN  IF nodeStartLine <= 1 THEN FALSE
        ELSE \E c \in commentNodes :
                 LET isBeforeNode == c < i
                     isNearNode == src[c].line = nodeStartLine - 1
                 IN  isBeforeNode /\ isNearNode

\* mark-vue.ts: handlerTemplateAst reaches and rewrites node i
RECURSIVE handlerTemplateAst(_, _, _)
handlerTemplateAst(src, i, commentNodes) ==
    /\ ~hasIgnoreCommentVue(src, i, commentNodes)
    /\ src[i].parent > 0 => handlerTemplateAst(src, src[i].parent, commentNodes)

Nodes(src) == {i \in 1..Len(src) : src[i].type = "node"}

InitIgnore ==
    /\ fileMapping = EmptyMap
    /\ dict = [l \in LangSet |-> EmptyMap]
    /\ record = EmptyMap
    /\ last = NoOp
    /\ update = FALSE
    /\ tpass = IdlePass
    /\ \E kind \in {"js", "vue"}, option \in IgnoreOptions :
           \E src \in IgnoreSources(kind) :
               code = [pc |-> "source", kind |-> kind, ignoreComment |-> option,
                       src |-> src, rewritten |-> {}]
    /\ queue = NoQueue

traverseJs ==
    /\ code.pc = "source"
    /\ code.kind = "js"
    /\ code' = [code EXCEPT
                  !.pc = "marked",
                  !.rewritten = {i \in Nodes(code.src) :
                                    ~hasIgnoreCommentJs(code.src, i, code.ignoreComment)}]
    /\ UNCHANGED <<fileMapping, dict, record, last, update, tpass, queue>>

handlerTemplateAstNodes ==
    /\ code.pc = "source"
    /\ code.kind = "vue"
    /\ LET commentNodes == collectI18nCommentNodes(code.src, code.ignoreComment)
       IN  code' = [code EXCEPT
                      !.pc = "marked",
                      !.rewritten = {i \in Nodes(code.src) :
                                        handlerTemplateAst(code.src, i, commentNodes)}]
    /\ UNCHANGED <<fileMapping, dict, record, last, update, tpass, queue>>

NextIgnore == traverseJs \/ handlerTemplateAstNodes

SpecIgnore == InitIgnore /\ [][NextIgnore]_vars

(***************************************************************************)
(* TranslationManager.translateBatch: one batch handed to the providers.   *)
(*                                                                         *)
(* Two versions of the method are in the repository: the one with a retry  *)
(* loop and a fallback provider ("retry") and the newest one, which has a  *)
(* single provider and a single try ("single").  A provider is the         *)
(* TranslationService interface: its batchTranslate either returns results *)
(* or rejects with an error of one of the TranslationErrorType values.     *)
(* In SpecRetry tpass is the translateBatch call: its configuration, the   *)
(* provider calls made so far with their outcomes and the delays slept.    *)
(***************************************************************************)
ServiceOrder == <<"baidu", "tencent">>
ServiceNames == {ServiceOrder[i] : i \in 1..Len(ServiceOrder)}
TranslationErrorType ==
    {"NETWORK_ERROR", "RATE_LIMIT", "AUTH_ERROR", "QUALITY_LOW", "CONFIG_ERROR"}
DefaultRetryAttempts == 3
MaxRetryAttempts == 2

\* this.config.translation?.retryAttempts || 3  (0 stands for "not set")
retryAttempts(cfg) ==
    IF cfg.retryAttempts = 0 THEN DefaultRetryAttempts ELSE cfg.retryAttempts

FirstOf(seq, Test(_)) ==
    LET hits == SelectSeq(seq, Test)
    IN  IF hits = << >> THEN "null" ELSE Head(hits)

\* the fallback list first, then any other initialised service
getFallbackService(cfg, excludeService) ==
    LET listed == FirstOf(cfg.fallbackServices,
                          LAMBDA s : s /= excludeService /\ s \in cfg.services)
    IN  IF listed /= "null" THEN listed
        ELSE FirstOf(ServiceOrder,
                     LAMBDA s : s \in cfg.services /\ s /= excludeService)

BatchConfigs ==
    {[driver |-> "retry", retryAttempts |-> n, services |-> ss,
      defaultService |-> d, fallbackServices |-> fb] :
        n \in 0..MaxRetryAttempts, ss \in (SUBSET ServiceNames) \ {{}},
        d \in ServiceNames,
        fb \in {<< >>, <<"baidu">>, <<"tencent">>, <<"baidu", "tencent">>}}
    \cup {[driver |-> "single", retryAttempts |-> 0, services |-> {d},
           defaultService |-> d, fallbackServices |-> << >>] : d \in ServiceNames}

NewBatch(cfg) ==
    [pc |-> "start", cfg |-> cfg, attempt |-> 0, calls |-> << >>,
     delays |-> << >>, result |-> "none", service |-> "null"]

InitRetry ==
    /\ \E cfg \in BatchConfigs : tpass = NewBatch(cfg)
    /\ fileMapping = EmptyMap
    /\ dict = [l \in LangSet |-> EmptyMap]
    /\ record = EmptyMap
    /\ last = NoOp
    /\ update = FALSE
    /\ code = NoCode
    /\ queue = NoQueue

\* translateBatch up to the first provider call: getService stands outside
\* the try and throws when the service is not in the map
translateBatchStart ==
    /\ tpass.pc = "start"
    /\ tpass' = IF tpass.cfg.defaultService \in tpass.cfg.services
                THEN [tpass EXCEPT !.pc = "attempt", !.attempt = 1,
                                   !.service = tpass.cfg.defaultService]
                ELSE [tpass EXCEPT !.pc = "done", !.result = "thrown"]
    /\ UNCHANGED <<fileMapping, dict, record, last, update, code, queue>>

\* one service.batchTranslate call of the loop and its catch block
translateBatchAttempt ==
    /\ tpass.pc = "attempt"
    /\ \E outcome \in {"ok"} \cup TranslationErrorType :
          LET called == [tpass EXCEPT !.calls =
                            Append(@, [service |-> tpass.service, outcome |-> outcome])]
              fallbackService == getFallbackService(tpass.cfg, tpass.service)
          IN  tpass' =
                IF outcome = "ok"
                THEN [called EXCEPT !.pc = "done", !.result = "results"]
                ELSE IF tpass.cfg.driver = "single"
                THEN [called EXCEPT !.pc = "done", !.result = "original"]
                ELSE IF tpass.attempt = retryAttempts(tpass.cfg)
                THEN IF fallbackService /= "null"
                     THEN [called EXCEPT !.pc = "fallback", !.service = fallbackService]
                     ELSE [called EXCEPT !.pc = "done", !.result = "original"]
                ELSE [called EXCEPT !.attempt = @ + 1,
                                    !.delays = Append(@, 1000 * tpass.attempt)]
    /\ UNCHANGED <<fileMapping, dict, record, last, update, code, queue>>

\* fallbackService.batchTranslate and its catch block
translateBatchFallback ==
    /\ tpass.pc = "fallback"
    /\ \E outcome \in {"ok"} \cup TranslationErrorType :
          tpass' = [tpass EXCEPT
                      !.calls = Append(@, [service |-> tpass.service, outcome |-> outcome]),
                      !.pc = "done",
                      !.result = IF outcome = "ok" THEN "results" ELSE "original"]
    /\ UNCHANGED <<fileMapping, dict, record, last, update, code, queue>>

NextRetry == translateBatchStart \/ translateBatchAttempt \/ translateBatchFallback

SpecRetry == InitRetry /\ [][NextRetry]_vars

(***************************************************************************)
(* Claims about the Reconciler.                                            *)
(***************************************************************************)
AfterWrite == last.op = "writeExtractFile"

EntryKeys == {e.key : e \in last.entries}

\* C1: writeExtractFile leaves the value of every key that was in a language
\* dictionary before the call unchanged, whatever that value is; the only
\* change to an existing key is its deletion when it is in Diff.removedKeys
\* and autoRemoveKey is true (and never when the batch holds the key).
C1_ExistingValueKept ==
    AfterWrite =>
        \A l \in LangSet : \A k \in DOMAIN last.oldDict[l] :
            /\ k \in DOMAIN dict[l] => dict[l][k] = last.oldDict[l][k]
            /\ k \notin DOMAIN dict[l] =>
                  /\ last.autoRemoveKey
                  /\ k \in DOMAIN last.diff.removedKeys
                  /\ k \notin EntryKeys

\* C9: after writeExtractFile(entries, config, false) the persisted Usage Map
\* holds, for every key of the prior map and of the batch, the union of the
\* prior path set and the batch's path set.
PathsOf(m, k) == IF k \in DOMAIN m THEN m[k] ELSE {}

C9_UsageMapUnion ==
    (AfterWrite /\ ~last.autoRemoveKey) =>
        \A k \in DOMAIN last.oldGroups \cup DOMAIN last.groups :
            /\ k \in DOMAIN fileMapping
            /\ fileMapping[k] = PathsOf(last.oldGroups, k) \cup PathsOf(last.groups, k)

\* C6: detectI18NDifferences(A, B) classifies every key of keys(A) \cup keys(B)
\* into exactly one of addedKeys, removedKeys, unchangedKeys: added = B \ A,
\* removed = A \ B, unchanged = A \cap B.
C6_DiffPartition ==
    last.op = "diff" =>
        LET A == DOMAIN last.oldGroups
            B == DOMAIN last.groups
            addK == DOMAIN last.diff.addedKeys
            remK == DOMAIN last.diff.removedKeys
            uncK == DOMAIN last.diff.unchangedKeys
        IN  /\ addK = B \ A
            /\ remK = A \ B
            /\ uncK = A \cap B
            /\ addK \cap remK = {} /\ addK \cap uncK = {} /\ remK \cap uncK = {}
            /\ addK \cup remK \cup uncK = A \cup B

C6_Witness ==
    /\ last.op = "diff"
    /\ DOMAIN last.diff.addedKeys /= {}
    /\ DOMAIN last.diff.removedKeys /= {}
    /\ DOMAIN last.diff.unchangedKeys /= {}

(***************************************************************************)
(* Claims about the translation pass.                                      *)
(***************************************************************************)
AfterPass == last.op = "translate"

\* C2: without the force-update flag a translation pass never changes the
\* value a key already has in a target-language dictionary; in particular a
\* value edited by a human after an earlier automatic translation of the same
\* key is still in the dictionary after the pass.
C2_HumanEditKept ==
    (AfterPass /\ ~last.update) =>
        \A l \in Range(TargetLangs) : \A k \in DOMAIN last.startDict[l] :
            last.startDict[l][k] = HumanText =>
                k \in DOMAIN dict[l] /\ dict[l][k] = HumanText

\* C3: after translateProject() completes, every key of the source-language
\* dictionary has a defined value in every target-language dictionary, also
\* when the provider failed for the key and the target dictionary did not
\* hold it before the call.
C3_NoKeyLost ==
    (AfterPass /\ last.kind = "project" /\ ~last.early) =>
        \A l \in Range(TargetLangs) : \A k \in DOMAIN dict[SourceLang] :
            k \in DOMAIN dict[l]

(***************************************************************************)
(* Claims about the marking and extraction engines.                        *)
(***************************************************************************)
\* C4: marking is idempotent: when marking returned a rewritten text,
\* marking that text again with the same options returns undefined and
\* leaves the text (its tags and its imports) as it is.
C4_MarkIdempotent ==
    (last.op = "mark" /\ last.again) =>
        (~last.output.defined /\ code = last.input)

RECURSIVE Interleave(_, _, _)
Interleave(quasis, variables, i) ==
    IF i > Len(quasis) THEN << >>
    ELSE quasis[i]
         \o (IF i <= Len(variables)
             THEN placeholderStart \o variables[i] \o placeholderEnd ELSE << >>)
         \o Interleave(quasis, variables, i + 1)

HasTargetText(t) == \E q \in 1..Len(t.quasis) : hasChinese(t.quasis[q])

\* exactly one entry stands for the fragment n, and it has the slots of n
OneEntryFor(n, entries) ==
    LET mine == {k \in 1..Len(entries) : entries[k].node = n.node}
    IN  /\ Cardinality(mine) = 1
        /\ \A k \in mine :
              /\ Len(entries[k].variables) = Len(n.tpl.exprs)
              /\ entries[k].key = entries[k].text
              /\ entries[k].key = Interleave(n.tpl.quasis, entries[k].variables, 1)
              /\ \A a, b \in 1..Len(entries[k].variables) :
                    a /= b => entries[k].variables[a] /= entries[k].variables[b]

ExtractedFromMarked == last.op = "extract" /\ last.marked

SourceNodes == TemplateNodes(last.source.stmts, 1)

Markable(stmt) == stmt.tag = << >> /\ ~stmt.ignore /\ HasTargetText(stmt)

RECURSIVE SlotsBefore(_, _)
SlotsBefore(nodes, x) ==
    IF x <= 1 THEN 0
    ELSE SlotsBefore(nodes, x - 1)
         + (IF IsI18nTagged(nodes[x - 1].tpl) THEN Len(nodes[x - 1].tpl.exprs) ELSE 0)

InputNodes == TemplateNodes(last.input.stmts, 1)

RECURSIVE SplicedAtSpans(_, _)
SplicedAtSpans(f, i) ==
    IF i > Len(f.kinds) THEN GapText
    ELSE GapText \o (IF f.grow[i] > 0 THEN NewCode(f, i) ELSE OldCode(f, i))
                 \o SplicedAtSpans(f, i + 1)

\* C8: the text markVueCode returns is the file with each replacement on
\* the original span of its region and all other characters unchanged, for
\* every order of the regions in the file and every length difference.
C8_SplicedAtOriginalSpans ==
    (last.op = "markVue" /\ last.output.defined) =>
        last.output.value = SplicedAtSpans(last.file, 1)

(***************************************************************************)
(* Claims about the ExtractQueue.                                          *)
(***************************************************************************)
\* C10: when the promise of waitForAllOperations() has resolved the queue
\* is quiescent: the buffer is empty, no flush is scheduled or in flight
\* (no delay timer, no queued extract, no requester waiting to re-request),
\* no translation is in flight or waiting to re-request, and no file write
\* caused by an earlier add() happens after the resolution.
C10_QuiescentWhenResolved ==
    queue.waiter = "resolved" =>
        /\ queue.extractEntries = {}
        /\ queue.timers = 0
        /\ ~queue.microtask
        /\ queue.extractWaiters = 0
        /\ queue.pendingOperations = {}
        /\ tpass.pc = "idle"
        /\ queue.translateWaiters = << >>
        /\ ~queue.lateWrite

\* C11: in production mode the entries of all add() calls of a build reach
\* the Reconciler in one writeExtractFile call, whatever the spacing of the
\* calls: the queue never makes a second call, and once the transform phase
\* is over the one call made has received every entry added.
C11_SingleReconcilerCall ==
    queue.isProduction =>
        /\ queue.flushes <= 1
        /\ (queue.flushes = 1 /\ queue.waiter /= "none")
              => queue.flushed = queue.added

(***************************************************************************)
(* Claims about translateBatch.                                            *)
(***************************************************************************)
BatchDone == tpass.pc = "done" /\ "cfg" \in DOMAIN tpass

CallsTo(s) == {i \in 1..Len(tpass.calls) : tpass.calls[i].service = s}
FailedCalls == {i \in 1..Len(tpass.calls) : tpass.calls[i].outcome /= "ok"}
Primary == tpass.cfg.defaultService
OtherCalls == {i \in 1..Len(tpass.calls) : tpass.calls[i].service /= Primary}

\* C12: for a batch the primary provider is called at most N times
\* (N = retryAttempts, default 3) with increasing delays in between; a
\* fallback provider, never the failed one, is called once and only after
\* the N-th failure; the original texts are returned only when the N
\* primary calls and the fallback call failed (or no fallback exists); the
\* batch never throws.
C12_RetryThenFallback ==
    BatchDone =>
        LET N == retryAttempts(tpass.cfg)
            exhausted == Cardinality(CallsTo(Primary) \cap FailedCalls) = N
            noFallback == tpass.cfg.services \ {Primary} = {}
        IN  /\ tpass.result /= "thrown"
            /\ Cardinality(CallsTo(Primary)) <= N
            /\ \A i, j \in 1..Len(tpass.delays) :
                  i < j => tpass.delays[i] < tpass.delays[j]
            /\ Cardinality(OtherCalls) <= 1
            /\ OtherCalls /= {} => exhausted
            /\ tpass.result = "original" =>
                  /\ exhausted
                  /\ noFallback \/ OtherCalls \cap FailedCalls /= {}

\* C13: after a provider call failed with AUTH_ERROR or CONFIG_ERROR the
\* same provider is not called again for the batch, and a failed provider
\* call does not abort the run (the batch does not throw after it).
C13_NoRetryOnAuthOrConfig ==
    ("cfg" \in DOMAIN tpass) =>
        /\ FailedCalls /= {} => tpass.result /= "thrown"
        /\ \A i, j \in 1..Len(tpass.calls) :
              (i < j /\ tpass.calls[i].outcome \in {"AUTH_ERROR", "CONFIG_ERROR"})
                  => tpass.calls[j].service /= tpass.calls[i].service

\* the (language, key) pairs of the pass that has just ended, over the target
\* languages and the keys the pass was asked for
PassPairs == {<<l, k>> : l \in Range(TargetLangs), k \in last.requested}

\* C14: translated is terminal without force-update: a pass with update false
\* sends no key to the provider for a language in which the ledger already
\* holds its translation, and leaves that ledger value as it was; a key whose
\* translation failed stays untranslated in the ledger and a pass that asks
\* for an untranslated key sends it; with update true every requested key is
\* sent for every target language.
C14_TranslatedIsTerminal ==
    AfterPass =>
        /\ ~last.update =>
              \A k \in DOMAIN last.startRec : \A l \in Range(TargetLangs) :
                 isTranslated(last.startRec, k, l) =>
                    /\ <<l, k>> \notin last.sent
                    /\ k \in DOMAIN record
                    /\ l \in DOMAIN record[k]
                    /\ record[k][l] = last.startRec[k][l]
        /\ \A p \in last.failed :
              ~isTranslated(last.startRec, p[2], p[1]) => ~isTranslated(record, p[2], p[1])
        /\ ~last.update =>
              \A p \in PassPairs :
                 ~isTranslated(last.startRec, p[2], p[1]) => p \in last.sent
        /\ last.update => PassPairs \subseteq last.sent

\* a pass without force-update that skipped a translated key, sent an
\* untranslated one, and saw the provider fail for a key
C14_Witness ==
    /\ AfterPass /\ ~last.update /\ ~last.early
    /\ \E k \in last.requested : \E l \in Range(TargetLangs) :
          isTranslated(last.startRec, k, l) /\ <<l, k>> \notin last.sent
    /\ \E p \in last.failed : ~isTranslated(record, p[2], p[1])
    /\ last.sent /= {}

\* a pass with force-update that sent an already translated key again
C14_WitnessUpdate ==
    /\ AfterPass /\ last.update /\ ~last.early
    /\ \E p \in last.sent : isTranslated(last.startRec, p[2], p[1])

AfterRefresh == last.op = "refresh"

\* C15: after refreshLanguageFiles every configured language's dictionary is
\* exactly the projection of the ledger onto that language: it maps key K to
\* V iff the ledger holds the non-empty value V for K in that language,
\* whatever the file held before; a second refresh leaves the files of the
\* first as they are, and the ledger is unchanged.
C15_RefreshIsProjection ==
    AfterRefresh =>
        /\ DOMAIN dict = LangSet
        /\ \A l \in LangSet : \A k \in Keys :
              /\ k \in DOMAIN dict[l] <=>
                    (k \in DOMAIN record /\ l \in DOMAIN record[k]
                        /\ record[k][l] /= EmptyStr)
              /\ k \in DOMAIN dict[l] => dict[l][k] = record[k][l]
        /\ \A l \in LangSet : DOMAIN dict[l] \subseteq Keys
        /\ last.again => dict = last.startDict
        /\ record = last.startRec

\* a refresh over files that held other keys and values, with a ledger that
\* holds a translation, an empty value and a key without the language
C15_Witness ==
    /\ AfterRefresh
    /\ \E l \in LangSet : \E k \in DOMAIN last.startDict[l] :
          last.startDict[l][k] = HumanText /\ k \notin DOMAIN dict[l]
    /\ \E l \in LangSet : \E k \in DOMAIN record :
          l \in DOMAIN record[k] /\ record[k][l] = EmptyStr
    /\ \E l \in LangSet : dict[l] /= EmptyMap

\* a second refresh directly after a first one
C15_WitnessTwice == AfterRefresh /\ last.again /\ dict /= [l \in LangSet |-> EmptyMap]

\* the state directly after a flush of the queue
AfterFlush == ("flushes" \in DOMAIN queue) /\ queue.flushes > 0 /\ AfterWrite

\* C16: writeExtractFile returns exactly the newly added keys, the keys of
\* the difference's addedKeys, and after a successful flush the queue hands
\* exactly that list to scheduleTranslate.
C16_FlushHandsAddedKeys ==
    AfterFlush => queue.handed = Returned(DOMAIN last.diff.addedKeys)

RunEnded == ("files" \in DOMAIN code) /\ code.pc \in {"done", "thrown"}

RunRange == {code.files[i] : i \in 1..Len(code.files)}

\* C17: a file that cannot be parsed affects only itself: a mark run leaves
\* it unmodified and still marks every other file; an extract run takes no
\* entries from it and still reconciles the entries of every other file of
\* the run with writeExtractFile; the run does not abort.
C17_ParseFailureIsLocal ==
    RunEnded =>
        /\ code.pc /= "thrown"
        /\ code.kind = "mark" =>
              code.written = {f.path : f \in {g \in RunRange : g.content \in Keys}}
        /\ code.kind = "extract" =>
              \A f \in RunRange :
                 f.content \in Keys =>
                    /\ f.content \in DOMAIN fileMapping
                    /\ f.path \in fileMapping[f.content]

\* does the declaration come from the configured path and carry the binding
\* that the configuration asks for?
CarriesBinding(decl, config) ==
    /\ decl.source = config.path
    /\ generateI18nImport(config, TagName).specifiers \subseteq decl.specifiers

\* C18: when at least one span is produced and i18nImport is configured,
\* markJsCode puts the import statement once at the top of the output iff no
\* import declaration of the file comes from the configured path with the
\* equivalent binding; when such a declaration exists anywhere among the
\* import declarations nothing is inserted, and when no span is produced
\* nothing is inserted.
C18_ImportInsertedIffMissing ==
    (("option" \in DOMAIN code) /\ code.pc = "out") =>
        /\ ~code.hasChange => ~code.out.defined
        /\ (code.hasChange /\ code.option.defined) =>
              LET has == \E i \in 1..Len(code.decls) :
                            CarriesBinding(code.decls[i], code.option.value)
              IN  /\ code.out.defined
                  /\ has => code.out.value = code.decls
                  /\ ~has => code.out.value =
                        <<generateI18nImport(code.option.value, TagName)>> \o code.decls

NamesGenerated == ("iName" \in DOMAIN code) /\ code.pc = "out"

\* C19: generateVarName is injective on the integers i >= 0: equal names come
\* from equal indexes; generateVarName(0) = "a", generateVarName(25) = "z",
\* generateVarName(26) = "aa"; the name is the letter chr(97 + i mod 26)
\* repeated floor(i / 26) + 1 times.
C19_VarNameInjective ==
    NamesGenerated =>
        /\ code.iName = code.jName => code.i = code.j
        /\ code.i = 0 => code.iName = <<"a">>
        /\ code.i = 25 => code.iName = <<"z">>
        /\ code.i = 26 => code.iName = <<"a", "a">>
        /\ Len(code.iName) = (code.i \div 26) + 1
        /\ \A n \in 1..Len(code.iName) : code.iName[n] = Letters[(code.i % 26) + 1]

\* two indexes with the same letter and different lengths
C19_Witness ==
    /\ NamesGenerated
    /\ code.i /= code.j
    /\ code.i % 26 = code.j % 26
    /\ code.iName /= code.jName

\* C20: a key that the Reconciler deleted from the dictionaries (a removed
\* key of a call with autoRemoveKey true) is still absent from every
\* language dictionary after a later translation pass that was not asked
\* for it (translateProject, or translateKeys for other keys).
C20_RemovedKeyStaysAbsent ==
    AfterPass =>
        \A k \in last.removed \ last.requested : \A l \in LangSet :
            k \notin DOMAIN dict[l]

\* the entries of the build that a flush has handed to writeExtractFile
Reconciled == queue.added \ queue.extractEntries

\* C21: in production mode a key reconciled by an earlier flush of the build
\* is still in every language dictionary and in the Usage Map after a later
\* flush whose entries come from other files.
C21_EarlierFlushKept ==
    (AfterFlush /\ queue.isProduction) =>
        \A e \in Reconciled :
            (\A f \in queue.flushed : f = e \/ f.filePath /= e.filePath) =>
                /\ e.key \in DOMAIN fileMapping
                /\ \A l \in LangSet : e.key \in DOMAIN dict[l]

TencentSaved == ("batches" \in DOMAIN code) /\ code.pc = "saved"

\* C22: for every batch the value written to the ledger for key batch[j] is
\* the provider's translation of that key's own source text: the result list
\* of the provider's batchTranslate has the length and the order of its
\* input texts, also when one sub-batch of the Tencent provider fails while
\* another succeeds.
C22_ResultsAlignedWithTexts ==
    TencentSaved =>
        /\ Len(code.results) = Len(code.texts)
        /\ \A j \in 1..Len(code.results) : code.results[j].originalText = code.texts[j]
        /\ \A k \in DOMAIN code.saved : code.saved[k].key = k

TencentSplitDone == ("batches" \in DOMAIN code)

RECURSIVE Flatten(_)
Flatten(batches) ==
    IF batches = << >> THEN << >> ELSE Head(batches) \o Flatten(Tail(batches))

RECURSIVE TotalLength(_)
TotalLength(batch) ==
    IF batch = << >> THEN 0 ELSE Head(batch).length + TotalLength(Tail(batch))

\* C29: splitTextsToBatches(texts, max) returns batches whose concatenation,
\* in order, is texts; no batch is empty; every batch of two or more texts
\* has a total length of at most max; and a text longer than max is the only
\* element of its batch.
C29_BatchesPartitionTexts ==
    TencentSplitDone =>
        /\ Flatten(code.batches) = code.texts
        /\ \A b \in 1..Len(code.batches) :
              LET batch == code.batches[b]
              IN  /\ Len(batch) > 0
                  /\ Len(batch) >= 2 => TotalLength(batch) <= code.max
                  /\ (\E n \in 1..Len(batch) : batch[n].length > code.max)
                        => Len(batch) = 1

\* a split into a batch of two texts and the batch of a text longer than max
C29_Witness ==
    /\ TencentSplitDone
    /\ \E b \in 1..Len(code.batches) : Len(code.batches[b]) >= 2
    /\ \E b \in 1..Len(code.batches) :
          Len(code.batches[b]) = 1 /\ code.batches[b][1].length > code.max

IsQueue == "inflight" \in DOMAIN queue

\* C23: at most one translation started by the queue is in flight at any
\* time: a scheduleTranslate call that arrives while isTranslating is true
\* starts no translation before the running one has settled.
C23_OneTranslationInFlight ==
    IsQueue =>
        /\ queue.inflight <= 1
        /\ queue.inflight = 1 => queue.isTranslating /\ tpass.pc /= "idle"
        /\ queue.inflight = 0 => tpass.pc = "idle"

\* a translation is in flight while a later request with keys waits
C23_Witness ==
    /\ IsQueue
    /\ queue.inflight = 1
    /\ \E i \in 1..Len(queue.translateWaiters) :
          queue.translateWaiters[i].defined /\ queue.translateWaiters[i].value /= {}

\* C24: the busy flags of the queue are always eventually cleared: after
\* every flush isExtracting is false again, and after every translation
\* request, whatever its outcome, isTranslating is false again, so that
\* every waiting requester goes on.
C24_FlagsEventuallyCleared ==
    /\ (queue.isExtracting ~> ~queue.isExtracting)
    /\ (queue.isTranslating ~> ~queue.isTranslating)

\* a step of extract() in which writeExtractFile threw
FlushThrew ==
    /\ queue.microtask /\ ~queue'.microtask
    /\ queue.extractEntries /= {}
    /\ queue'.flushes = queue.flushes

\* C25: when writeExtractFile throws during a flush the queue keeps every
\* buffered entry, schedules no translation for that flush and resets
\* isExtracting; the next flush hands the kept entries, with newer ones, to
\* writeExtractFile, so no entry added to the queue leaves it without having
\* been handed to writeExtractFile.
C25_ThrowKeepsEntries ==
    [][IsQueue =>
        /\ FlushThrew =>
              /\ queue'.extractEntries = queue.extractEntries
              /\ ~queue'.isExtracting
              /\ queue'.isTranslating = queue.isTranslating
              /\ queue'.translateWaiters = queue.translateWaiters
              /\ tpass' = tpass
        /\ queue'.flushes = queue.flushes + 1 => queue'.flushed = queue.extractEntries
        /\ queue'.added = queue'.extractEntries \cup queue'.flushedAll]_vars

\* a flush that followed a throw and handed over the kept entries together
\* with a newer one
C25_Witness ==
    /\ IsQueue
    /\ queue.flushes > 0
    /\ queue.retained /= {}
    /\ queue.retained \subseteq queue.flushed
    /\ queue.retained /= queue.flushed

InWrite == ("langsWritten" \in DOMAIN code)

\* C26: within one writeExtractFile call the Usage Map of the call is
\* persisted before the first language dictionary is written, every
\* dictionary change of the call comes from the entries and the difference
\* of that same call, and no dictionary is written by a call whose Usage Map
\* was not persisted.
C26_UsageMapBeforeDictionaries ==
    InWrite =>
        LET groups == groupEntriesByKey(code.entries)
            diff == detectI18NDifferences(code.oldGroups, groups)
        IN  /\ code.langsWritten /= {} =>
                  code.mapWritten /\ fileMapping = groups
            /\ \A l \in LangSet :
                  dict[l] = IF l \in code.langsWritten
                            THEN LangDataAfter(code.oldDict[l], code.entries, diff,
                                               code.autoRemoveKey)
                            ELSE code.oldDict[l]

\* a call that threw after it had written the first language file, with a
\* key inserted and a key removed
C26_Witness ==
    /\ InWrite
    /\ code.pc = "thrown"
    /\ code.langsWritten /= {} /\ code.langsWritten /= LangSet
    /\ DOMAIN code.diff.removedKeys /= {}
    /\ code.autoRemoveKey

\* C27: for every tagged fragment of a file, the template key that the
\* run-time tag function of createI18nTag passes to t is the dictionary key
\* that extraction emitted for the fragment, and the parameter names it
\* passes are the variables of that entry.
C27_RuntimeKeyIsExtractedKey ==
    last.op = "run" =>
        /\ Len(last.calls) = Len(last.entries)
        /\ \A k \in 1..Len(last.calls) :
              /\ last.calls[k].template = last.entries[k].key
              /\ last.calls[k].params = last.entries[k].variables

\* the string a template literal with the text `raw` between its backticks
\* evaluates to; undefined when the text holds an unescaped backtick, an
\* interpolation or a backslash with nothing after it
RECURSIVE Cooked(_, _, _)
Cooked(raw, i, acc) ==
    IF i > Len(raw) THEN Returned(acc)
    ELSE IF raw[i] = "bs"
         THEN IF i + 1 > Len(raw) THEN Undefined
              ELSE Cooked(raw, i + 2,
                          Append(acc, IF raw[i + 1] = "n" THEN "newline" ELSE raw[i + 1]))
         ELSE IF raw[i] = "bt" THEN Undefined
              ELSE IF raw[i] = "$" /\ i + 1 <= Len(raw) /\ raw[i + 1] = "{"
                   THEN Undefined
                   ELSE Cooked(raw, i + 1, Append(acc, raw[i]))

\* C28: for every string s the template literal text that
\* toSafeTemplateLiteral(s) produces evaluates back to s: it holds no
\* unescaped backtick and no active interpolation, and every backslash of s,
\* whatever follows it, is read back as a backslash.
C28_SafeLiteralRoundTrip ==
    (("content" \in DOMAIN code) /\ code.pc = "literal") =>
        Cooked(code.content, 1, << >>) = Returned(code.str)

IgnoreMarked == ("rewritten" \in DOMAIN code) /\ code.pc = "marked"

\* a comment with the text of ignoreComment ends on the line before node i,
\* ahead of it
Annotated(src, i, option) ==
    /\ src[i].line > 1
    /\ \E c \in 1..Len(src) :
           /\ src[c].type = "comment"
           /\ src[c].text = option
           /\ src[c].line = src[i].line - 1
           /\ c < i

\* node i or an element that holds it is annotated
RECURSIVE Covered(_, _, _)
Covered(src, i, option) ==
    \/ Annotated(src, i, option)
    \/ src[i].parent > 0 /\ Covered(src, src[i].parent, option)

\* C30: a candidate node starting on line L > 1 is never rewritten when a
\* comment whose trimmed text equals ignoreComment ends on line L - 1 before
\* it; the annotation covers only the nodes starting on the next line (in a
\* Vue template the annotated element with what it holds), so any other
\* candidate is rewritten.
C30_IgnoreCoversNextLine ==
    IgnoreMarked =>
        \A i \in Nodes(code.src) :
            /\ Annotated(code.src, i, code.ignoreComment) => i \notin code.rewritten
            /\ ~Covered(code.src, i, code.ignoreComment) => i \in code.rewritten

\* C30 where ignoreComment is configured: with an empty ignoreComment no
\* comment is an annotation and every candidate is rewritten.
C30_Amended ==
    IgnoreMarked =>
        \A i \in Nodes(code.src) :
            IF code.ignoreComment = "" THEN i \in code.rewritten
            ELSE /\ Annotated(code.src, i, code.ignoreComment) => i \notin code.rewritten
                 /\ ~Covered(code.src, i, code.ignoreComment) => i \in code.rewritten

\* an annotated node was skipped while a node two lines below the
\* annotation, outside the annotated element, was rewritten
C30_Witness ==
    /\ IgnoreMarked
    /\ code.ignoreComment /= ""
    /\ \E i, j \in Nodes(code.src) :
           /\ Annotated(code.src, i, code.ignoreComment)
           /\ i \notin code.rewritten
           /\ code.src[j].line = code.src[i].line + 1
           /\ j \in code.rewritten

====
